---- MODULE Spec2Model ----
(***************************************************************************)
(* Fiscal periods and sequential document numbering                        *)
(* (fiscal/service, fiscal/repository, fiscal/domain, core/db).            *)
(*                                                                         *)
(* The table fiscal_years is the variable rows: the committed state of the *)
(* store.  Request-handling workers call the service concurrently.  Every  *)
(* repository call is one SQL statement run in autocommit, except          *)
(* SetAsCurrent, which runs two UPDATEs inside db.BeginFunc.  The store is *)
(* PostgreSQL at READ COMMITTED: an UPDATE takes its snapshot, waits for   *)
(* the lock of each row it found, and re-checks the WHERE clause on the    *)
(* newest committed version; the partial unique index                      *)
(* idx_fiscal_years_one_current makes a writer wait for an in-progress     *)
(* conflicting writer and fail once that writer has committed.             *)
(***************************************************************************)
EXTENDS Integers, Sequences, FiniteSets, TLC

\* ------------------------------------------------------------------ bounds
NumWorkers == 2
MaxPeriods == 2
MaxCalls == 3
\* civil days and local years tried on each side of the seeded table, and how far
\* apart the two dates of a compared pair are
MaxOutsideDays == 35
MaxOutsideYears == 1
MaxGap == 2

Workers == 1..NumWorkers
\* ids handed out by uuid.New(), in order; the id after the last one names no row
Ids == 1..MaxPeriods
Tenants == {"tA", "tB"}
Users == {"u1", "u2"}
\* values of time.Now()
Times == {"t1", "t2"}
DocTypes == {"invoice", "purchase", "voucher"}
\* fiscal year names, as the characters of the Go string
Names == { <<"2","0","8","2","/","8","3">>, <<"2","0","8","3","/","8","4">> }

VARIABLES
  rows,           \* fiscal_years: id -> committed row, or NoRow
  nextId,         \* how many ids uuid.New() has handed out
  pc,             \* each worker's position in the call it is running
  call,           \* the arguments of that call
  fy,             \* the *domain.FiscalYear the call loaded with GetByID
  txw,            \* each worker's open transaction: the row versions it wrote
  cand,           \* rows the running UPDATE found in its snapshot, not yet visited
  ret,            \* what the last step returned to its caller (NoRet: nothing returned)
  issued,         \* history: how often each number was returned (saturates at 2)
  ncalls,         \* history: numbering calls started
  cal,            \* the last calendar conversion: its arguments and results
  handed,         \* history: the (tenant, document type, number string) triples returned
  journal         \* journal_entries: the stored entries, in the order of their ids

vars == <<rows, nextId, pc, call, fy, txw, cand, ret, issued, ncalls, cal, handed, journal>>

\* ------------------------------------------------------------ domain.FiscalYear
NoRow == [exists |-> FALSE]
NoWrite == [written |-> FALSE]
NoCall == [op |-> "none", tenant |-> "tA", id |-> 0, doc |-> "invoice", user |-> "u1",
           name |-> <<>>, explicit |-> FALSE, startDate |-> 0, endDate |-> 0,
           entry |-> 0, date |-> 0]
OkRet == [ok |-> TRUE, err |-> "", prefix |-> <<>>, num |-> 0]
ErrRet(e) == [ok |-> FALSE, err |-> e, prefix |-> <<>>, num |-> 0]
NumRet(p, n) == [ok |-> TRUE, err |-> "", prefix |-> p, num |-> n]
NoRet == [w |-> 0, call |-> NoCall, val |-> OkRet]

generatePrefix(docType, fiscalYearName) ==
  LET yearCode == IF Len(fiscalYearName) >= 7
                  THEN SubSeq(fiscalYearName, 3, 4) \o SubSeq(fiscalYearName, 6, 7)
                  ELSE fiscalYearName
  IN docType \o <<"-">> \o yearCode \o <<"-">>

\* faulty variant: a new period starts as the current one
NewFiscalYearCurrent(tenantID, name, startDate, endDate, startDateBS, endDateBS) ==
  [exists |-> TRUE, tenant |-> tenantID, name |-> name,
   startDate |-> startDate, endDate |-> endDate,
   startDateBS |-> startDateBS, endDateBS |-> endDateBS,
   isCurrent |-> TRUE, isClosed |-> FALSE, closedAt |-> "nil", closedBy |-> "nil",
   invoicePrefix |-> generatePrefix(<<"I","N","V">>, name),
   purchasePrefix |-> generatePrefix(<<"P","U","R">>, name),
   voucherPrefix |-> generatePrefix(<<"J","V">>, name),
   lastInvoiceNum |-> 0, lastPurchaseNum |-> 0, lastVoucherNum |-> 0]

NewFiscalYear(tenantID, name, startDate, endDate, startDateBS, endDateBS) ==
  [exists |-> TRUE, tenant |-> tenantID, name |-> name,
   startDate |-> startDate, endDate |-> endDate,
   startDateBS |-> startDateBS, endDateBS |-> endDateBS,
   isCurrent |-> FALSE, isClosed |-> FALSE, closedAt |-> "nil", closedBy |-> "nil",
   invoicePrefix |-> generatePrefix(<<"I","N","V">>, name),
   purchasePrefix |-> generatePrefix(<<"P","U","R">>, name),
   voucherPrefix |-> generatePrefix(<<"J","V">>, name),
   lastInvoiceNum |-> 0, lastPurchaseNum |-> 0, lastVoucherNum |-> 0]

\* faulty variant: Close sets the flag and records neither time nor closer
FyCloseUnstamped(f, closedBy, now) == [f EXCEPT !.isClosed = TRUE]

FyClose(f, closedBy, now) ==
  [f EXCEPT !.isClosed = TRUE, !.closedAt = now, !.closedBy = closedBy]

\* faulty variant: Reopen clears the flag and keeps closedAt and closedBy
FyReopenKeepsMarkers(f) == [f EXCEPT !.isClosed = FALSE]

FyReopen(f) == [f EXCEPT !.isClosed = FALSE, !.closedAt = "nil", !.closedBy = "nil"]

Counter(r, doc) ==
  CASE doc = "invoice" -> r.lastInvoiceNum
    [] doc = "purchase" -> r.lastPurchaseNum
    [] doc = "voucher" -> r.lastVoucherNum

Prefix(r, doc) ==
  CASE doc = "invoice" -> r.invoicePrefix
    [] doc = "purchase" -> r.purchasePrefix
    [] doc = "voucher" -> r.voucherPrefix

\* fmt.Sprintf("%04d", n) for n >= 0: the decimal digits of n, padded on the left with
\* zeros to at least four characters
DigitChars == <<"0", "1", "2", "3", "4", "5", "6", "7", "8", "9">>

RECURSIVE Itoa(_)
Itoa(n) == IF n < 10 THEN <<DigitChars[n + 1]>> ELSE Itoa(n \div 10) \o <<DigitChars[(n % 10) + 1]>>

RECURSIVE PadZero(_, _)
PadZero(digits, width) ==
  IF Len(digits) >= width THEN digits ELSE PadZero(<<"0">> \o digits, width)

\* faulty variant: the number is formatted with "%d"
SprintfUnpadded(n) == Itoa(n)

Sprintf04d(n) == PadZero(Itoa(n), 4)

\* fmt.Sprintf("%s%04d", prefix, nextNum): the string a numbering call returns
FormatNumber(prefix, nextNum) == prefix \o Sprintf04d(nextNum)

\* ------------------------------------------------------------ utils: the calendar
\* A time.Time is the number of hours from 2023-04-14 00:00 UTC (referenceAD) to it;
\* a civil date is the midnight that starts it.  A NepaliDate is [year, month, day].
nepaliMonthDays ==
  (2080 :> <<31, 32, 31, 32, 31, 30, 30, 29, 30, 29, 30, 30>>) @@
  (2081 :> <<31, 31, 32, 31, 31, 31, 30, 29, 30, 29, 30, 30>>) @@
  (2082 :> <<31, 32, 31, 32, 31, 30, 30, 30, 29, 29, 30, 31>>) @@
  (2083 :> <<30, 32, 31, 32, 31, 30, 30, 30, 29, 30, 29, 31>>) @@
  (2084 :> <<31, 31, 32, 31, 31, 31, 30, 29, 30, 29, 30, 30>>) @@
  (2085 :> <<31, 31, 32, 32, 31, 30, 30, 29, 30, 29, 30, 30>>) @@
  (2086 :> <<31, 32, 31, 32, 31, 30, 30, 30, 29, 29, 30, 31>>) @@
  (2087 :> <<30, 32, 31, 32, 31, 30, 30, 30, 29, 30, 29, 31>>) @@
  (2088 :> <<31, 31, 32, 31, 31, 31, 30, 29, 30, 29, 30, 30>>) @@
  (2089 :> <<31, 31, 32, 32, 31, 30, 30, 29, 30, 29, 30, 30>>) @@
  (2090 :> <<31, 32, 31, 32, 31, 30, 30, 30, 29, 29, 30, 31>>)

referenceBS == [year |-> 2080, month |-> 1, day |-> 1]
referenceAD == 0
HoursPerDay == 24
DefaultMonthDays == 30

NepaliDate(y, m, d) == [year |-> y, month |-> m, day |-> d]

\* the lookup of getDaysInMonth finds an entry
InTable(year, month) == year \in DOMAIN nepaliMonthDays /\ month \in 1..12

getDaysInMonth(year, month) ==
  IF InTable(year, month) THEN nepaliMonthDays[year][month] ELSE DefaultMonthDays

RECURSIVE SumMonths(_, _, _)
\* getDaysInMonth(year, m) summed over m = from .. to - 1
SumMonths(year, from, to) ==
  IF from >= to THEN 0 ELSE getDaysInMonth(year, from) + SumMonths(year, from + 1, to)

\* faulty variant: every year is taken to have 365 days
getTotalDaysInYearFixed(year) == 365

getTotalDaysInYear(year) == SumMonths(year, 1, 13)

RECURSIVE SumYears(_, _)
\* getTotalDaysInYear(y) summed over y = from .. to - 1
SumYears(from, to) ==
  IF from >= to THEN 0 ELSE getTotalDaysInYear(from) + SumYears(from + 1, to)

\* Go's int(x) of a quotient: truncation toward zero
TruncDiv(a, b) == IF a >= 0 THEN a \div b ELSE -((-a) \div b)

\* faulty variant: the loop ends one day late, "if day <= monthDays + 1"
OverflowStepLate(s) ==
  IF s.done \/ s.day <= 0 THEN [s EXCEPT !.done = TRUE]
  ELSE LET monthDays == getDaysInMonth(s.year, s.month)
           fb2 == s.fb \/ ~InTable(s.year, s.month)
       IN IF s.day <= monthDays + 1
          THEN [s EXCEPT !.fb = fb2, !.done = TRUE]
          ELSE IF s.month + 1 > 12
               THEN [year |-> s.year + 1, month |-> 1, day |-> s.day - monthDays,
                     fb |-> fb2, done |-> FALSE]
               ELSE [year |-> s.year, month |-> s.month + 1, day |-> s.day - monthDays,
                     fb |-> fb2, done |-> FALSE]

\* ADToBS, first loop ("for day > 0"), one iteration: the loop ends (done) when day
\* is not positive or fits the month, and else moves to the next month.  fb records
\* that a getDaysInMonth call on the way fell back to the default length
OverflowStep(s) ==
  IF s.done \/ s.day <= 0 THEN [s EXCEPT !.done = TRUE]
  ELSE LET monthDays == getDaysInMonth(s.year, s.month)
           fb2 == s.fb \/ ~InTable(s.year, s.month)
       IN IF s.day <= monthDays
          THEN [s EXCEPT !.fb = fb2, !.done = TRUE]
          ELSE IF s.month + 1 > 12
               THEN [year |-> s.year + 1, month |-> 1, day |-> s.day - monthDays,
                     fb |-> fb2, done |-> FALSE]
               ELSE [year |-> s.year, month |-> s.month + 1, day |-> s.day - monthDays,
                     fb |-> fb2, done |-> FALSE]

\* twelve iterations of the loop
OverflowSteps(s) ==
  LET s1 == OverflowStep(s)
      s2 == OverflowStep(s1)
      s3 == OverflowStep(s2)
      s4 == OverflowStep(s3)
      s5 == OverflowStep(s4)
      s6 == OverflowStep(s5)
      s7 == OverflowStep(s6)
      s8 == OverflowStep(s7)
      s9 == OverflowStep(s8)
      s10 == OverflowStep(s9)
      s11 == OverflowStep(s10)
  IN OverflowStep(s11)

\* the loop run to its end
RECURSIVE DaysOverflowLoop(_)
DaysOverflowLoop(s) == IF s.done THEN s ELSE DaysOverflowLoop(OverflowSteps(s))

DaysOverflow(year, month, day, fb) ==
  DaysOverflowLoop([year |-> year, month |-> month, day |-> day, fb |-> fb, done |-> FALSE])

\* ADToBS, second loop ("for day <= 0"): walk backward month by month
RECURSIVE DaysNegative(_, _, _, _)
DaysNegative(year, month, day, fb) ==
  IF day > 0 THEN [year |-> year, month |-> month, day |-> day, fb |-> fb]
  ELSE LET m == IF month - 1 < 1 THEN 12 ELSE month - 1
           y == IF month - 1 < 1 THEN year - 1 ELSE year
       IN DaysNegative(y, m, day + getDaysInMonth(y, m), fb \/ ~InTable(y, m))

ADToBSWalk(ad) ==
  LET daysDiff == TruncDiv(ad - referenceAD, HoursPerDay)
      fwd == DaysOverflow(referenceBS.year, referenceBS.month, referenceBS.day + daysDiff, FALSE)
  IN DaysNegative(fwd.year, fwd.month, fwd.day, fwd.fb)

ADToBS(ad) ==
  LET r == ADToBSWalk(ad) IN NepaliDate(r.year, r.month, r.day)

\* faulty variant: the months loop is left out
BSToADDaysWithoutMonths(bs) ==
  LET years == IF bs.year > referenceBS.year THEN SumYears(referenceBS.year, bs.year)
               ELSE IF bs.year < referenceBS.year THEN -SumYears(bs.year, referenceBS.year)
               ELSE 0
  IN years + (bs.day - referenceBS.day)

\* BSToAD: days of the years between the reference year and bs.year, of the months
\* between the reference month and bs.month in bs.year, and of the day
BSToADDays(bs) ==
  LET years == IF bs.year > referenceBS.year THEN SumYears(referenceBS.year, bs.year)
               ELSE IF bs.year < referenceBS.year THEN -SumYears(bs.year, referenceBS.year)
               ELSE 0
      months == IF bs.month > referenceBS.month
                THEN SumMonths(bs.year, referenceBS.month, bs.month)
                ELSE IF bs.month < referenceBS.month
                THEN -SumMonths(bs.year, bs.month, referenceBS.month)
                ELSE 0
  IN years + months + (bs.day - referenceBS.day)

\* referenceAD.AddDate(0, 0, totalDays), in UTC
BSToAD(bs) == referenceAD + BSToADDays(bs) * HoursPerDay

\* the (year, month) pairs BSToAD passes to getDaysInMonth
BSToADLookups(bs) ==
  LET lo == IF bs.year < referenceBS.year THEN bs.year ELSE referenceBS.year
      hi == IF bs.year < referenceBS.year THEN referenceBS.year ELSE bs.year
      mlo == IF bs.month < referenceBS.month THEN bs.month ELSE referenceBS.month
      mhi == IF bs.month < referenceBS.month THEN referenceBS.month ELSE bs.month
  IN {<<y, m>> : y \in lo..(hi - 1), m \in 1..12} \cup {<<bs.year, m>> : m \in mlo..(mhi - 1)}

BSToADFallback(bs) == \E ym \in BSToADLookups(bs) : ~InTable(ym[1], ym[2])

\* the seeded years, and the number of days they cover from the reference date on
TableYears == DOMAIN nepaliMonthDays
TableDays == SumYears(referenceBS.year, referenceBS.year + Cardinality(TableYears))
MaxMonthDays == 32

\* civil dates given to ADToBS: every date of the table's range and some outside it
CivilDates ==
  {d * HoursPerDay + referenceAD : d \in (-MaxOutsideDays)..(TableDays - 1 + MaxOutsideDays)}

\* NepaliDate values given to BSToAD, valid or not
LocalDates ==
  {NepaliDate(y, m, d) : y \in (referenceBS.year - MaxOutsideYears)
                                 ..(referenceBS.year + Cardinality(TableYears) - 1 + MaxOutsideYears),
                         m \in 1..12, d \in 1..MaxMonthDays}

\* a date of the seeded table: month 1..12, day within the table's length of the month
ValidLocal(bs) ==
  /\ InTable(bs.year, bs.month)
  /\ bs.day >= 1 /\ bs.day <= nepaliMonthDays[bs.year][bs.month]

\* the day after bs in the local calendar
LocalSucc(bs) ==
  IF bs.day < getDaysInMonth(bs.year, bs.month) THEN NepaliDate(bs.year, bs.month, bs.day + 1)
  ELSE IF bs.month < 12 THEN NepaliDate(bs.year, bs.month + 1, 1)
  ELSE NepaliDate(bs.year + 1, 1, 1)

RECURSIVE LocalAfter(_, _)
LocalAfter(bs, g) == IF g = 0 THEN bs ELSE LocalAfter(LocalSucc(bs), g - 1)

\* The civil (Gregorian) date of a time.Time, as [year, month, day]: referenceAD is
\* time.Date(2023, 4, 14, 0, 0, 0, 0, time.UTC)
referenceCivil == [year |-> 2023, month |-> 4, day |-> 14]

IsLeapYear(y) == (y % 4 = 0 /\ y % 100 # 0) \/ y % 400 = 0

CivilMonthDays(y, m) ==
  IF m = 2 THEN (IF IsLeapYear(y) THEN 29 ELSE 28)
  ELSE IF m \in {4, 6, 9, 11} THEN 30 ELSE 31

RECURSIVE NormalizeCivil(_, _, _)
\* time.Date's normalisation of a day number beyond the end of the month
NormalizeCivil(y, m, d) ==
  IF d <= CivilMonthDays(y, m) THEN [year |-> y, month |-> m, day |-> d]
  ELSE IF m = 12 THEN NormalizeCivil(y + 1, 1, d - CivilMonthDays(y, m))
  ELSE NormalizeCivil(y, m + 1, d - CivilMonthDays(y, m))

\* the date of a time at or after referenceAD
CivilDate(t) ==
  NormalizeCivil(referenceCivil.year, referenceCivil.month,
                 referenceCivil.day + (t - referenceAD) \div HoursPerDay)

\* NepaliDate.String: fmt.Sprintf("%04d-%02d-%02d", nd.Year, nd.Month, nd.Day)
String(nd) ==
  PadZero(Itoa(nd.year), 4) \o <<"-">> \o PadZero(Itoa(nd.month), 2) \o <<"-">>
     \o PadZero(Itoa(nd.day), 2)

\* the value of a decimal digit character, -1 for any other character
DigitValue(c) ==
  IF \E i \in 1..10 : DigitChars[i] = c THEN (CHOOSE i \in 1..10 : DigitChars[i] = c) - 1 ELSE -1

RECURSIVE ScanDigits(_, _, _)
\* the number read from the digits of str from position i on, acc being the value so far
ScanDigits(str, i, acc) ==
  IF i > Len(str) \/ DigitValue(str[i]) < 0 THEN acc
  ELSE ScanDigits(str, i + 1, acc * 10 + DigitValue(str[i]))

\* fmt.Sscanf(fiscalYearName, "%d/", &year) with its error dropped: the leading digits
\* of the name, and 0 when it has none
ScanYear(fiscalYearName) == ScanDigits(fiscalYearName, 1, 0)

\* the day of the last month of a fiscal year that GetFiscalYearDates writes down
FiscalEndDay == 32

GetFiscalYearDates(fiscalYearName) ==
  LET year == ScanYear(fiscalYearName)
      startBS == NepaliDate(year, 4, 1)
      endBS == NepaliDate(year + 1, 3, FiscalEndDay)
  IN [startBS |-> startBS, endBS |-> endBS, startAD |-> BSToAD(startBS), endAD |-> BSToAD(endBS)]

\* fmt.Sprintf("%d/%02d", ...): the name of the fiscal year a local date falls in
GetFiscalYearName(bs) ==
  IF bs.month >= 4
  THEN Itoa(bs.year) \o <<"/">> \o PadZero(Itoa((bs.year + 1) % 100), 2)
  ELSE Itoa(bs.year - 1) \o <<"/">> \o PadZero(Itoa(bs.year % 100), 2)

\* ------------------------------------------------------------ the store
Exists(p) == p \in Ids /\ rows[p].exists

\* the tenant's rows whose committed version has is_current = true
CurrentOf(t) == {p \in Ids : rows[p].exists /\ rows[p].tenant = t /\ rows[p].isCurrent}

Holders(p) == {v \in Workers : p \in Ids /\ txw[v][p].written}
LockedByOther(w, p) == Holders(p) \ {w} # {}

\* what transaction w reads of row p: its own write, else the committed version
View(w, p) == IF txw[w][p].written THEN txw[w][p].row ELSE rows[p]

\* v has an index entry of idx_fiscal_years_one_current for tenant t whose fate is
\* open: a committed entry v is deleting or keeping, or one v has inserted
Pending(v, t) ==
  \E q \in Ids :
     /\ txw[v][q].written /\ rows[q].exists /\ rows[q].tenant = t
     /\ \/ rows[q].isCurrent
        \/ txw[v][q].row.isCurrent /\ pc[v] = "sc_commit"

\* faulty variant: the unique check does not wait for in-progress writers
IndexWaitsNone(w, t) == {}

IndexWaits(w, t) == {v \in Workers \ {w} : Pending(v, t)}

\* faulty variant: the table has no idx_fiscal_years_one_current
UniqueViolationNoIndex(w, t, f) == FALSE

\* idx_fiscal_years_one_current: another live row of the tenant is current
UniqueViolation(w, t, f) ==
  \E q \in Ids \ {f} :
     /\ rows[q].exists /\ rows[q].tenant = t
     /\ View(w, q).isCurrent

\* whom worker w is waiting for
WaitsFor(w) ==
  CASE pc[w] = "sc_unset" /\ cand[w] # {} -> UNION {Holders(p) \ {w} : p \in cand[w]}
    [] pc[w] \in {"sc_unset", "update", "delete", "increment"} -> Holders(call[w].id) \ {w}
    [] pc[w] \in {"sc_index", "update_index"} -> IndexWaits(w, call[w].tenant)
    [] OTHER -> {}

RECURSIVE Reach(_)
Reach(S) ==
  LET N == S \cup UNION {WaitsFor(v) : v \in S}
  IN IF N = S THEN S ELSE Reach(N)

\* the store's deadlock detector finds w on a cycle of waits
Deadlocked(w) == w \in Reach(WaitsFor(w))

\* ------------------------------------------------------------ Init
\* no conversion made
NoCal == [op |-> "none"]

Init ==
  /\ rows = [p \in Ids |-> NoRow]
  /\ nextId = 0
  /\ pc = [w \in Workers |-> "idle"]
  /\ call = [w \in Workers |-> NoCall]
  /\ fy = [w \in Workers |-> NoRow]
  /\ txw = [w \in Workers |-> [p \in Ids |-> NoWrite]]
  /\ cand = [w \in Workers |-> {}]
  /\ ret = NoRet
  /\ issued = [p \in Ids |-> [d \in DocTypes |-> [n \in 1..MaxCalls |-> 0]]]
  /\ ncalls = 0
  /\ cal = NoCal
  /\ handed = {}
  /\ journal = <<>>

\* ------------------------------------------------------------ transactions
NoWrites == [p \in Ids |-> NoWrite]

\* tx.Commit: every version the transaction wrote becomes the committed one
Commit(w) == [p \in Ids |-> IF txw[w][p].written THEN txw[w][p].row ELSE rows[p]]

\* the call returns: the worker is idle again, its transaction (if any) is over
Return(w, c, r) ==
  /\ pc' = [pc EXCEPT ![w] = "idle"]
  /\ ret' = [w |-> w, call |-> c, val |-> r]
  /\ call' = [call EXCEPT ![w] = NoCall]
  /\ txw' = [txw EXCEPT ![w] = NoWrites]
  /\ cand' = [cand EXCEPT ![w] = {}]
  /\ fy' = [fy EXCEPT ![w] = NoRow]

\* ------------------------------------------------------------ Create
\* faulty variant: the table has no unique_fiscal_year_name
DuplicateNameUnchecked(t, n) == FALSE

\* fiscalYearService.Create / CreateFromNepaliDate: NewFiscalYear, then the INSERT;
\* unique_fiscal_year_name rejects a second (tenant_id, name)
DuplicateName(t, n) ==
  \E q \in Ids : rows[q].exists /\ rows[q].tenant = t /\ rows[q].name = n

\* a DATE column keeps the day of a time.Time (UTC), not its time of day
DateOf(t) == (t \div HoursPerDay) * HoursPerDay

\* faulty variant: the table has no check_dates
CheckDatesUnchecked(f) == TRUE

\* check_dates: CHECK (end_date > start_date), on the DATE values
CheckDates(f) == DateOf(f.endDate) > DateOf(f.startDate)

\* repo.Create: the INSERT of f by worker w, as the call c.  A violated check_dates or
\* unique_fiscal_year_name fails the statement and nothing is stored
Insert(w, c, f) ==
  IF ~CheckDates(f) \/ DuplicateName(f.tenant, f.name)
  THEN /\ Return(w, c, ErrRet("failed to create fiscal year"))
       /\ UNCHANGED <<rows, nextId>>
  ELSE /\ nextId < MaxPeriods
       /\ rows' = [rows EXCEPT ![nextId + 1] =
                     [f EXCEPT !.startDate = DateOf(@), !.endDate = DateOf(@)]]
       /\ nextId' = nextId + 1
       /\ Return(w, [c EXCEPT !.id = nextId + 1], OkRet)

\* explicit dates handed to Create: the first day of fiscal year 2082/83 at midnight
\* and at noon, and the day after it
HalfDay == 12
FiscalStart == BSToAD(NepaliDate(2082, 4, 1))
ExplicitTimes == {FiscalStart, FiscalStart + HalfDay, FiscalStart + HoursPerDay}

\* utils.ADToBS on each of these dates, computed once
ADToBSOf == [d \in ExplicitTimes |-> ADToBS(d)]

\* fiscalYearService.Create: explicit civil dates, the local dates by ADToBS
Create(w, T, N, DT) ==
  /\ pc[w] = "idle"
  /\ \E t \in T, n \in N, startDate \in DT, endDate \in DT :
       Insert(w, [NoCall EXCEPT !.op = "create", !.tenant = t, !.name = n, !.explicit = TRUE,
                                !.startDate = startDate, !.endDate = endDate],
              NewFiscalYear(t, n, startDate, endDate,
                            String(ADToBSOf[startDate]), String(ADToBSOf[endDate])))
  /\ UNCHANGED <<issued, ncalls, cal, handed, journal>>

\* utils.GetFiscalYearDates on each fiscal year name, computed once
GetFiscalYearDatesOf == [n \in Names |-> GetFiscalYearDates(n)]

\* fiscalYearService.CreateFromNepaliDate: all four dates from the name
CreateFromNepaliDate(w, T, N) ==
  /\ pc[w] = "idle"
  /\ \E t \in T, n \in N :
       LET d == GetFiscalYearDatesOf[n] IN
       Insert(w, [NoCall EXCEPT !.op = "create", !.tenant = t, !.name = n],
              NewFiscalYear(t, n, d.startAD, d.endAD, String(d.startBS), String(d.endBS)))
  /\ UNCHANGED <<issued, ncalls, cal, handed, journal>>

\* ------------------------------------------------------------ SetAsCurrent
\* ids a caller can name: the ones handed out so far, and one that names no row
Known == (1..nextId) \cup {MaxPeriods + 1}

\* db.BeginFunc begins the transaction and the first UPDATE takes its snapshot:
\* the rows WHERE tenant_id = $1 AND is_current = true
ScBegin(w, T) ==
  /\ pc[w] = "idle"
  /\ \E t \in T, f \in Known :
       /\ call' = [call EXCEPT ![w] = [NoCall EXCEPT !.op = "setCurrent", !.tenant = t, !.id = f]]
       /\ cand' = [cand EXCEPT ![w] = CurrentOf(t)]
  /\ pc' = [pc EXCEPT ![w] = "sc_unset"]
  /\ ret' = NoRet
  /\ UNCHANGED <<rows, nextId, fy, txw, issued, ncalls, cal, handed, journal>>

\* faulty variant: the first UPDATE runs on the pool, outside the transaction, and commits
\* on its own
ScUnsetRowAutocommit(w) ==
  /\ pc[w] = "sc_unset"
  /\ \E p \in cand[w] :
       /\ ~LockedByOther(w, p)
       /\ cand' = [cand EXCEPT ![w] = cand[w] \ {p}]
       /\ IF rows[p].exists /\ rows[p].tenant = call[w].tenant /\ rows[p].isCurrent
          THEN rows' = [rows EXCEPT ![p].isCurrent = FALSE]
          ELSE UNCHANGED rows
  /\ ret' = NoRet
  /\ UNCHANGED <<txw, nextId, pc, call, fy, issued, ncalls, cal, handed, journal>>

\* the first UPDATE visits a row of its snapshot: it waits for the row's lock, re-checks
\* the WHERE clause on the newest committed version and writes is_current = false
ScUnsetRow(w) ==
  /\ pc[w] = "sc_unset"
  /\ \E p \in cand[w] :
       /\ ~LockedByOther(w, p)
       /\ cand' = [cand EXCEPT ![w] = cand[w] \ {p}]
       /\ IF rows[p].exists /\ rows[p].tenant = call[w].tenant /\ rows[p].isCurrent
          THEN txw' = [txw EXCEPT ![w][p] =
                         [written |-> TRUE, row |-> [rows[p] EXCEPT !.isCurrent = FALSE]]]
          ELSE UNCHANGED txw
  /\ ret' = NoRet
  /\ UNCHANGED <<rows, nextId, pc, call, fy, issued, ncalls, cal, handed, journal>>

\* faulty variant: the second UPDATE is WHERE id = $1 only, whichever tenant owns the row
ScSetAnyTenant(w) ==
  LET f == call[w].id
  IN /\ pc[w] = "sc_unset"
     /\ cand[w] = {}
     /\ IF ~Exists(f)
        THEN /\ pc' = [pc EXCEPT ![w] = "sc_commit"]
             /\ UNCHANGED txw
        ELSE /\ ~LockedByOther(w, f)
             /\ txw' = [txw EXCEPT ![w][f] =
                          [written |-> TRUE, row |-> [View(w, f) EXCEPT !.isCurrent = TRUE]]]
             /\ pc' = [pc EXCEPT ![w] = IF View(w, f).isCurrent THEN "sc_commit" ELSE "sc_index"]
     /\ ret' = NoRet
     /\ UNCHANGED <<rows, nextId, call, fy, cand, issued, ncalls, cal, handed, journal>>

\* the second UPDATE: WHERE id = $1 AND tenant_id = $2.  No such row: zero rows
\* updated and no error.  Else it locks the row and writes is_current = true; a row
\* that was not current gets a new entry in idx_fiscal_years_one_current
ScSet(w) ==
  LET f == call[w].id
      t == call[w].tenant
  IN /\ pc[w] = "sc_unset"
     /\ cand[w] = {}
     /\ IF ~(Exists(f) /\ rows[f].tenant = t)
        THEN /\ pc' = [pc EXCEPT ![w] = "sc_commit"]
             /\ UNCHANGED txw
        ELSE /\ ~LockedByOther(w, f)
             /\ txw' = [txw EXCEPT ![w][f] =
                          [written |-> TRUE, row |-> [View(w, f) EXCEPT !.isCurrent = TRUE]]]
             /\ pc' = [pc EXCEPT ![w] = IF View(w, f).isCurrent THEN "sc_commit" ELSE "sc_index"]
     /\ ret' = NoRet
     /\ UNCHANGED <<rows, nextId, call, fy, cand, issued, ncalls, cal, handed, journal>>

\* the unique check of the new index entry: it waits for every in-progress writer of a
\* conflicting entry; a live conflicting entry makes the UPDATE fail, fn returns the
\* error and BeginFunc rolls back
ScIndex(w) ==
  LET f == call[w].id
      t == call[w].tenant
  IN /\ pc[w] = "sc_index"
     /\ IndexWaits(w, t) = {}
     /\ IF UniqueViolation(w, t, f)
        THEN Return(w, call[w], ErrRet("failed to set fiscal year as current"))
        ELSE /\ pc' = [pc EXCEPT ![w] = "sc_commit"]
             /\ ret' = NoRet
             /\ UNCHANGED <<call, txw, cand, fy>>
     /\ UNCHANGED <<rows, nextId, issued, ncalls, cal, handed, journal>>

\* fn returned nil: BeginFunc's deferred function commits
ScCommit(w) ==
  /\ pc[w] = "sc_commit"
  /\ rows' = Commit(w)
  /\ Return(w, call[w], OkRet)
  /\ UNCHANGED <<nextId, issued, ncalls, cal, handed, journal>>

\* tx.Commit fails (the connection is lost, the context is cancelled): nothing is
\* committed.  BeginFunc's "return err" has already taken fn's nil as the result, and
\* the deferred function assigns the commit error to the local err only
ScCommitFails(w) ==
  /\ pc[w] = "sc_commit"
  /\ Return(w, call[w], OkRet)
  /\ UNCHANGED <<rows, nextId, issued, ncalls, cal, handed, journal>>

\* the store aborts a statement that waits on a cycle: fn returns the error, rollback
ScDeadlock(w) ==
  /\ pc[w] \in {"sc_unset", "sc_index"}
  /\ Deadlocked(w)
  /\ Return(w, call[w], ErrRet(IF pc[w] = "sc_unset" /\ cand[w] # {}
                               THEN "failed to unset current fiscal years"
                               ELSE "failed to set fiscal year as current"))
  /\ UNCHANGED <<rows, nextId, issued, ncalls, cal, handed, journal>>

SetAsCurrent(w, T) ==
  \/ ScBegin(w, T)
  \/ ScUnsetRow(w)
  \/ ScSet(w)
  \/ ScIndex(w)
  \/ ScCommit(w)
  \/ ScDeadlock(w)

\* ------------------------------------------------------------ Close, Reopen
\* faulty variant: the scan of the row reads the purchase prefix into both the invoice
\* and the purchase prefix
GetByIDSwapped(id) ==
  IF Exists(id) THEN [rows[id] EXCEPT !.invoicePrefix = rows[id].purchasePrefix] ELSE NoRow

\* GetByID: SELECT ... WHERE id = $1 on the committed state
GetByID(id) == IF Exists(id) THEN rows[id] ELSE NoRow

CloseLoad(w, U, T) ==
  /\ pc[w] = "idle"
  /\ \E id \in Known, u \in U, now \in T :
       LET f == GetByID(id) IN
       IF ~f.exists
       THEN Return(w, [NoCall EXCEPT !.op = "close", !.id = id, !.user = u], ErrRet("failed to get fiscal year"))
       ELSE IF f.isClosed
       THEN Return(w, [NoCall EXCEPT !.op = "close", !.id = id, !.user = u], ErrRet("fiscal year is already closed"))
       ELSE /\ fy' = [fy EXCEPT ![w] = FyClose(f, u, now)]
            /\ call' = [call EXCEPT ![w] = [NoCall EXCEPT !.op = "close", !.tenant = f.tenant,
                                              !.id = id, !.user = u]]
            /\ pc' = [pc EXCEPT ![w] = "update"]
            /\ ret' = NoRet
            /\ UNCHANGED <<txw, cand>>
  /\ UNCHANGED <<rows, nextId, issued, ncalls, cal, handed, journal>>

ReopenLoad(w) ==
  /\ pc[w] = "idle"
  /\ \E id \in Known :
       LET f == GetByID(id) IN
       IF ~f.exists
       THEN Return(w, [NoCall EXCEPT !.op = "reopen", !.id = id], ErrRet("failed to get fiscal year"))
       ELSE IF ~f.isClosed
       THEN Return(w, [NoCall EXCEPT !.op = "reopen", !.id = id], ErrRet("fiscal year is not closed"))
       ELSE /\ fy' = [fy EXCEPT ![w] = FyReopen(f)]
            /\ call' = [call EXCEPT ![w] = [NoCall EXCEPT !.op = "reopen", !.tenant = f.tenant, !.id = id]]
            /\ pc' = [pc EXCEPT ![w] = "update"]
            /\ ret' = NoRet
            /\ UNCHANGED <<txw, cand>>
  /\ UNCHANGED <<rows, nextId, issued, ncalls, cal, handed, journal>>

\* Update: UPDATE fiscal_years SET <every column but id, tenant_id, created_at> = the
\* loaded copy's value WHERE id = $17.  No such row: zero rows, no error.  A row that
\* becomes current gets a new entry in idx_fiscal_years_one_current
UpdateRow(w) ==
  LET id == call[w].id IN
  /\ pc[w] = "update"
  /\ IF ~Exists(id)
     THEN /\ Return(w, call[w], OkRet)
          /\ UNCHANGED rows
     ELSE /\ ~LockedByOther(w, id)
          /\ IF fy[w].isCurrent /\ ~rows[id].isCurrent
             THEN /\ txw' = [txw EXCEPT ![w][id] = [written |-> TRUE, row |-> fy[w]]]
                  /\ pc' = [pc EXCEPT ![w] = "update_index"]
                  /\ ret' = NoRet
                  /\ UNCHANGED <<rows, call, cand, fy>>
             ELSE /\ rows' = [rows EXCEPT ![id] = fy[w]]
                  /\ Return(w, call[w], OkRet)
  /\ UNCHANGED <<nextId, issued, ncalls, cal, handed, journal>>

\* the service's wrapping of an error of repo.Update
UpdateError(op) ==
  IF op = "close" THEN "failed to close fiscal year" ELSE "failed to reopen fiscal year"

UpdateIndex(w) ==
  /\ pc[w] = "update_index"
  /\ IndexWaits(w, call[w].tenant) = {}
  /\ IF UniqueViolation(w, call[w].tenant, call[w].id)
     THEN /\ Return(w, call[w], ErrRet(UpdateError(call[w].op)))
          /\ UNCHANGED rows
     ELSE /\ rows' = Commit(w)
          /\ Return(w, call[w], OkRet)
  /\ UNCHANGED <<nextId, issued, ncalls, cal, handed, journal>>

UpdateDeadlock(w) ==
  /\ pc[w] = "update_index"
  /\ Deadlocked(w)
  /\ Return(w, call[w], ErrRet(UpdateError(call[w].op)))
  /\ UNCHANGED <<rows, nextId, issued, ncalls, cal, handed, journal>>

CloseReopen(w, U, T) ==
  \/ CloseLoad(w, U, T)
  \/ ReopenLoad(w)
  \/ UpdateRow(w)
  \/ UpdateIndex(w)
  \/ UpdateDeadlock(w)

\* ------------------------------------------------------------ Delete
\* faulty variant: the service checks IsClosed before IsCurrent
DeleteLoadClosedFirst(w) ==
  /\ pc[w] = "idle"
  /\ \E id \in Known :
       LET f == GetByID(id) IN
       IF ~f.exists
       THEN Return(w, [NoCall EXCEPT !.op = "delete", !.id = id], ErrRet("failed to get fiscal year"))
       ELSE IF f.isClosed
       THEN Return(w, [NoCall EXCEPT !.op = "delete", !.id = id], ErrRet("cannot delete closed fiscal year"))
       ELSE IF f.isCurrent
       THEN Return(w, [NoCall EXCEPT !.op = "delete", !.id = id], ErrRet("cannot delete current fiscal year"))
       ELSE /\ call' = [call EXCEPT ![w] = [NoCall EXCEPT !.op = "delete", !.tenant = f.tenant, !.id = id]]
            /\ pc' = [pc EXCEPT ![w] = "delete"]
            /\ ret' = NoRet
            /\ UNCHANGED <<txw, cand, fy>>
  /\ UNCHANGED <<rows, nextId, issued, ncalls, cal, handed, journal>>

DeleteLoad(w) ==
  /\ pc[w] = "idle"
  /\ \E id \in Known :
       LET f == GetByID(id) IN
       IF ~f.exists
       THEN Return(w, [NoCall EXCEPT !.op = "delete", !.id = id], ErrRet("failed to get fiscal year"))
       ELSE IF f.isCurrent
       THEN Return(w, [NoCall EXCEPT !.op = "delete", !.id = id], ErrRet("cannot delete current fiscal year"))
       ELSE IF f.isClosed
       THEN Return(w, [NoCall EXCEPT !.op = "delete", !.id = id], ErrRet("cannot delete closed fiscal year"))
       ELSE /\ call' = [call EXCEPT ![w] = [NoCall EXCEPT !.op = "delete", !.tenant = f.tenant, !.id = id]]
            /\ pc' = [pc EXCEPT ![w] = "delete"]
            /\ ret' = NoRet
            /\ UNCHANGED <<txw, cand, fy>>
  /\ UNCHANGED <<rows, nextId, issued, ncalls, cal, handed, journal>>

\* DELETE FROM fiscal_years WHERE id = $1
DeleteExec(w) ==
  /\ pc[w] = "delete"
  /\ ~LockedByOther(w, call[w].id)
  /\ rows' = [rows EXCEPT ![call[w].id] = NoRow]
  /\ Return(w, call[w], OkRet)
  /\ UNCHANGED <<nextId, issued, ncalls, cal, handed, journal>>

Delete(w) == DeleteLoad(w) \/ DeleteExec(w)

\* ------------------------------------------------------------ numbering
\* the errors of a numbering call
ClosedError(d) ==
  CASE d = "invoice" -> "cannot generate invoice number for closed fiscal year"
    [] d = "purchase" -> "cannot generate purchase number for closed fiscal year"
    [] d = "voucher" -> "cannot generate voucher number for closed fiscal year"

IncrementError(d) ==
  CASE d = "invoice" -> "failed to increment invoice number"
    [] d = "purchase" -> "failed to increment purchase number"
    [] d = "voucher" -> "failed to increment voucher number"

\* faulty variant: the call does not check IsClosed
GenLoadUnchecked(w, D) ==
  /\ pc[w] = "idle"
  /\ \E id \in Known, d \in D :
       LET f == GetByID(id) IN
       IF ~f.exists
       THEN /\ Return(w, [NoCall EXCEPT !.op = d, !.id = id, !.doc = d],
                        ErrRet("failed to get fiscal year"))
            /\ UNCHANGED <<ncalls, cal, handed, journal>>
       ELSE /\ ncalls < MaxCalls
            /\ ncalls' = ncalls + 1 /\ UNCHANGED <<cal, handed, journal>>
            /\ fy' = [fy EXCEPT ![w] = f]
            /\ call' = [call EXCEPT ![w] = [NoCall EXCEPT !.op = d, !.tenant = f.tenant,
                                              !.id = id, !.doc = d]]
            /\ pc' = [pc EXCEPT ![w] = "increment"]
            /\ ret' = NoRet
            /\ UNCHANGED <<txw, cand>>
  /\ UNCHANGED <<rows, nextId, issued>>

\* GenerateInvoiceNumber / GeneratePurchaseNumber / GenerateVoucherNumber: GetByID and
\* the check of the loaded copy's IsClosed
GenLoad(w, D) ==
  /\ pc[w] = "idle"
  /\ \E id \in Known, d \in D :
       LET f == GetByID(id) IN
       IF ~f.exists
       THEN /\ Return(w, [NoCall EXCEPT !.op = d, !.id = id, !.doc = d],
                        ErrRet("failed to get fiscal year"))
            /\ UNCHANGED <<ncalls, cal, handed, journal>>
       ELSE IF f.isClosed
       THEN /\ Return(w, [NoCall EXCEPT !.op = d, !.id = id, !.doc = d],
                        ErrRet(ClosedError(d)))
            /\ UNCHANGED <<ncalls, cal, handed, journal>>
       ELSE /\ ncalls < MaxCalls
            /\ ncalls' = ncalls + 1 /\ UNCHANGED <<cal, handed, journal>>
            /\ fy' = [fy EXCEPT ![w] = f]
            /\ call' = [call EXCEPT ![w] = [NoCall EXCEPT !.op = d, !.tenant = f.tenant,
                                              !.id = id, !.doc = d]]
            /\ pc' = [pc EXCEPT ![w] = "increment"]
            /\ ret' = NoRet
            /\ UNCHANGED <<txw, cand>>
  /\ UNCHANGED <<rows, nextId, issued>>

\* faulty variant: the statement adds one to all three counters
IncrementEveryCounter(r, doc) ==
  [r EXCEPT !.lastInvoiceNum = @ + 1, !.lastPurchaseNum = @ + 1, !.lastVoucherNum = @ + 1]

\* IncrementInvoiceNumber and its two siblings:
\* UPDATE ... SET last_x_num = last_x_num + 1 WHERE id = $1 RETURNING last_x_num
Increment(r, doc) ==
  CASE doc = "invoice" -> [r EXCEPT !.lastInvoiceNum = @ + 1]
    [] doc = "purchase" -> [r EXCEPT !.lastPurchaseNum = @ + 1]
    [] doc = "voucher" -> [r EXCEPT !.lastVoucherNum = @ + 1]

Bump(n) == IF n < 2 THEN n + 1 ELSE n

\* the counter of r set to n
WithCounter(r, doc, n) ==
  CASE doc = "invoice" -> [r EXCEPT !.lastInvoiceNum = n]
    [] doc = "purchase" -> [r EXCEPT !.lastPurchaseNum = n]
    [] doc = "voucher" -> [r EXCEPT !.lastVoucherNum = n]

\* faulty variant: the service adds one to the counter it loaded and stores the sum
GenIncrementReadModifyWrite(w) ==
  LET id == call[w].id
      d == call[w].doc
  IN /\ pc[w] = "increment"
     /\ IF ~Exists(id)
        THEN /\ Return(w, call[w], ErrRet(IncrementError(d)))
             /\ UNCHANGED <<rows, issued, handed>>
        ELSE /\ ~LockedByOther(w, id)
             /\ rows' = [rows EXCEPT ![id] = WithCounter(rows[id], d, Counter(fy[w], d) + 1)]
             /\ issued' = [issued EXCEPT ![id][d][Counter(rows'[id], d)] = Bump(@)]
             /\ handed' = handed \cup {<<call[w].tenant, d,
                                          FormatNumber(Prefix(fy[w], d), Counter(rows'[id], d))>>}
             /\ Return(w, call[w], NumRet(Prefix(fy[w], d), Counter(rows'[id], d)))
     /\ UNCHANGED <<nextId, ncalls, cal, journal>>

\* faulty variant: the error of Scan on an empty result is dropped, nextNum stays 0 and
\* the call returns the formatted string
GenIncrementNoRowsIgnored(w) ==
  LET id == call[w].id
      d == call[w].doc
  IN /\ pc[w] = "increment"
     /\ IF ~Exists(id)
        THEN /\ Return(w, call[w], NumRet(Prefix(fy[w], d), 0))
             /\ handed' = handed \cup {<<call[w].tenant, d, FormatNumber(Prefix(fy[w], d), 0)>>}
             /\ UNCHANGED <<rows, issued>>
        ELSE /\ ~LockedByOther(w, id)
             /\ rows' = [rows EXCEPT ![id] = Increment(rows[id], d)]
             /\ issued' = [issued EXCEPT ![id][d][Counter(rows'[id], d)] = Bump(@)]
             /\ handed' = handed \cup {<<call[w].tenant, d,
                                          FormatNumber(Prefix(fy[w], d), Counter(rows'[id], d))>>}
             /\ Return(w, call[w], NumRet(Prefix(fy[w], d), Counter(rows'[id], d)))
     /\ UNCHANGED <<nextId, ncalls, cal, journal>>

\* the increment, then fmt.Sprintf("%s%04d", fy.<X>Prefix, nextNum) with the loaded prefix
GenIncrement(w) ==
  LET id == call[w].id
      d == call[w].doc
  IN /\ pc[w] = "increment"
     /\ IF ~Exists(id)
        THEN /\ Return(w, call[w], ErrRet(IncrementError(d)))
             /\ UNCHANGED <<rows, issued, handed>>
        ELSE /\ ~LockedByOther(w, id)
             /\ rows' = [rows EXCEPT ![id] = Increment(rows[id], d)]
             /\ issued' = [issued EXCEPT ![id][d][Counter(rows'[id], d)] = Bump(@)]
             /\ handed' = handed \cup {<<call[w].tenant, d,
                                          FormatNumber(Prefix(fy[w], d), Counter(rows'[id], d))>>}
             /\ Return(w, call[w], NumRet(Prefix(fy[w], d), Counter(rows'[id], d)))
     /\ UNCHANGED <<nextId, ncalls, cal, journal>>

Generate(w, D) == GenLoad(w, D) \/ GenIncrement(w)

\* GetByID returns an error (a timeout, a lost connection): the call returns it
GenLoadError(w, D) ==
  /\ pc[w] = "idle"
  /\ \E id \in Known, d \in D :
       Return(w, [NoCall EXCEPT !.op = d, !.id = id, !.doc = d], ErrRet("failed to get fiscal year"))
  /\ UNCHANGED <<rows, nextId, issued, ncalls, cal, handed, journal>>

\* faulty variant: after an increment whose answer was lost the call tries again
GenIncrementErrorRetried(w) ==
  LET id == call[w].id
      d == call[w].doc
  IN /\ pc[w] = "increment"
     /\ \/ /\ Return(w, call[w], ErrRet(IncrementError(d)))
           /\ UNCHANGED rows
        \/ /\ Exists(id) /\ ~LockedByOther(w, id)
           /\ Counter(rows[id], d) < MaxCalls
           /\ rows' = [rows EXCEPT ![id] = Increment(rows[id], d)]
           /\ ret' = NoRet
           /\ UNCHANGED <<pc, call, txw, cand, fy>>
     /\ UNCHANGED <<nextId, issued, ncalls, cal, handed, journal>>

\* the increment's QueryRow(...).Scan returns an error (a timeout, a lost connection),
\* either before the UPDATE ran or after it committed with its answer lost: the call
\* returns the error; no number is handed out
GenIncrementError(w) ==
  LET id == call[w].id
      d == call[w].doc
  IN /\ pc[w] = "increment"
     /\ \/ /\ Return(w, call[w], ErrRet(IncrementError(d)))
           /\ UNCHANGED rows
        \/ /\ Exists(id) /\ ~LockedByOther(w, id)
           /\ rows' = [rows EXCEPT ![id] = Increment(rows[id], d)]
           /\ Return(w, call[w], ErrRet(IncrementError(d)))
     /\ UNCHANGED <<nextId, issued, ncalls, cal, handed, journal>>

\* ------------------------------------------------------------ accounting: journal entries
MaxEntries == 2

\* domain.NewJournalEntry: a new entry is a draft
NewJournalEntry(tenantID, fiscalYearID, date) ==
  [tenant |-> tenantID, fiscalYearID |-> fiscalYearID, transactionDate |-> date, status |-> "DRAFT"]

\* 2026-01-01, the first day of the first partition of journal_entries
JournalPartitionStart == referenceAD + 993 * HoursPerDay

\* transaction dates of the requests: the day before fiscal year 2082/83, and a day of
\* the fiscal year for which journal_entries has a partition
JournalDates == {FiscalStart - HoursPerDay, JournalPartitionStart}

\* CreateJournalEntry, step 1: fiscalService.GetByID, the IsClosed check and the date
\* range check.  The lines of the request name existing accounts and balance
JeLoad(w, T, DT) ==
  /\ pc[w] = "idle"
  /\ \E t \in T, id \in Known, date \in DT :
       LET f == GetByID(id)
           c == [NoCall EXCEPT !.op = "createJournal", !.tenant = t, !.id = id, !.date = date]
       IN IF ~f.exists
          THEN Return(w, c, ErrRet("failed to get fiscal year"))
          ELSE IF f.isClosed
          THEN Return(w, c, ErrRet("cannot create journal entry in a closed fiscal year"))
          ELSE IF date < f.startDate \/ date > f.endDate
          THEN Return(w, c, ErrRet("transaction date is outside the fiscal year range"))
          ELSE /\ Len(journal) + Cardinality({v \in Workers : pc[v] = "je_persist"}) < MaxEntries
               /\ call' = [call EXCEPT ![w] = c]
               /\ pc' = [pc EXCEPT ![w] = "je_persist"]
               /\ ret' = NoRet
               /\ UNCHANGED <<fy, txw, cand>>
  /\ UNCHANGED <<rows, nextId, issued, ncalls, cal, handed, journal>>

\* CreateJournalEntry, step 2: journalRepo.Create inserts the entry; transaction_date is
\* a DATE column
JePersist(w) ==
  /\ pc[w] = "je_persist"
  /\ journal' = Append(journal, NewJournalEntry(call[w].tenant, call[w].id, DateOf(call[w].date)))
  /\ Return(w, [call[w] EXCEPT !.entry = Len(journal) + 1], OkRet)
  /\ UNCHANGED <<rows, nextId, issued, ncalls, cal, handed>>

\* the type of the column journal_entries.status
StatusColumnType == "character varying"

\* journalRepo.UpdateStatus: UPDATE journal_entries SET status = $2, ..., posted_at =
\* CASE WHEN $2 = 'POSTED' THEN $3 ELSE posted_at END WHERE id = $1.  The pool prepares
\* the statement and the server deduces the parameter types: $2 is text by the
\* comparison with the literal, and the type of the column by the assignment.  Two
\* different types fail the statement
UpdateStatus(j, e, status) ==
  IF StatusColumnType # "text"
  THEN [err |-> "inconsistent types deduced for parameter $2", journal |-> j]
  ELSE [err |-> "", journal |-> [j EXCEPT ![e].status = status]]

\* entry ids a caller can name: the stored ones and one that names no entry
KnownEntries == 1..(Len(journal) + 1)

\* PostJournalEntry, step 1: journalRepo.GetByID and the check of the entry's status
PostLoad(w) ==
  /\ pc[w] = "idle"
  /\ \E e \in KnownEntries :
       LET c == [NoCall EXCEPT !.op = "postJournal", !.entry = e] IN
       IF e > Len(journal)
       THEN Return(w, c, ErrRet("journal entry not found"))
       ELSE IF journal[e].status = "POSTED"
       THEN Return(w, c, ErrRet("journal entry is already posted"))
       ELSE /\ call' = [call EXCEPT ![w] = [c EXCEPT !.tenant = journal[e].tenant,
                                                      !.id = journal[e].fiscalYearID]]
            /\ pc' = [pc EXCEPT ![w] = "post_fiscal"]
            /\ ret' = NoRet
            /\ UNCHANGED <<fy, txw, cand>>
  /\ UNCHANGED <<rows, nextId, issued, ncalls, cal, handed, journal>>

\* PostJournalEntry, step 2: fiscalService.GetByID of the entry's fiscal year and the
\* IsClosed check
PostFiscal(w) ==
  /\ pc[w] = "post_fiscal"
  /\ LET f == GetByID(call[w].id) IN
     IF ~f.exists
     THEN Return(w, call[w], ErrRet("failed to get fiscal year"))
     ELSE IF f.isClosed
     THEN Return(w, call[w], ErrRet("cannot post to a closed fiscal year"))
     ELSE /\ pc' = [pc EXCEPT ![w] = "post_update"]
          /\ ret' = NoRet
          /\ UNCHANGED <<call, fy, txw, cand>>
  /\ UNCHANGED <<rows, nextId, issued, ncalls, cal, handed, journal>>

\* PostJournalEntry, step 3: journalRepo.UpdateStatus(id, POSTED), its error returned as
\* it is
PostUpdate(w) ==
  /\ pc[w] = "post_update"
  /\ LET u == UpdateStatus(journal, call[w].entry, "POSTED") IN
     /\ journal' = u.journal
     /\ Return(w, call[w], IF u.err = "" THEN OkRet ELSE ErrRet(u.err))
  /\ UNCHANGED <<rows, nextId, issued, ncalls, cal, handed>>

\* ------------------------------------------------------------ calendar conversions, run
\* the service variables, which no conversion touches
svars == <<rows, nextId, pc, call, fy, txw, cand, ret, issued, ncalls, handed, journal>>

\* ADToBS(ad).  The function has no error result: err is always FALSE
ToLocal ==
  /\ cal.op = "none"
  /\ \E ad \in CivilDates :
       cal' = [op |-> "ADToBS", ad |-> ad, bs |-> ADToBS(ad),
               fb |-> ADToBSWalk(ad).fb, err |-> FALSE]
  /\ UNCHANGED svars

\* BSToAD(ADToBS(ad))
ToLocalBack ==
  /\ cal.op = "ADToBS"
  /\ cal' = [op |-> "ADToBS.BSToAD", ad |-> cal.ad, bs |-> cal.bs, ad2 |-> BSToAD(cal.bs)]
  /\ UNCHANGED svars

\* BSToAD(bs).  The function has no error result: err is always FALSE
ToCivil ==
  /\ cal.op = "none"
  /\ \E bs \in LocalDates :
       cal' = [op |-> "BSToAD", bs |-> bs, ad |-> BSToAD(bs),
               fb |-> BSToADFallback(bs), err |-> FALSE]
  /\ UNCHANGED svars

\* ADToBS(BSToAD(bs))
ToCivilBack ==
  /\ cal.op = "BSToAD"
  /\ cal' = [op |-> "BSToAD.ADToBS", bs |-> cal.bs, ad |-> cal.ad, bs2 |-> ADToBS(cal.ad)]
  /\ UNCHANGED svars

\* ADToBS of two civil dates, ad before ad2
ToLocalPair ==
  /\ cal.op = "none"
  /\ \E ad \in CivilDates, g \in 1..MaxGap :
       LET ad2 == ad + g * HoursPerDay IN
       /\ ad2 \in CivilDates
       /\ cal' = [op |-> "ADToBS2", ad |-> ad, ad2 |-> ad2, bs |-> ADToBS(ad), bs2 |-> ADToBS(ad2)]
  /\ UNCHANGED svars

\* BSToAD of two valid local dates, bs before bs2
ToCivilPair ==
  /\ cal.op = "none"
  /\ \E bs \in LocalDates, g \in 1..MaxGap :
       LET bs2 == LocalAfter(bs, g) IN
       /\ ValidLocal(bs) /\ ValidLocal(bs2)
       /\ cal' = [op |-> "BSToAD2", bs |-> bs, bs2 |-> bs2, ad |-> BSToAD(bs), ad2 |-> BSToAD(bs2)]
  /\ UNCHANGED svars

\* GetFiscalYearDates of the names of two consecutive fiscal years, the local years of
\* both in the table
ToFiscalYears ==
  /\ cal.op = "none"
  /\ \E y \in TableYears :
       LET name == GetFiscalYearName(NepaliDate(y, 4, 1))
           name2 == GetFiscalYearName(NepaliDate(y + 1, 4, 1))
       IN /\ y + 2 \in TableYears
          /\ cal' = [op |-> "GetFiscalYearDates2", name |-> name, name2 |-> name2,
                     fd |-> GetFiscalYearDates(name), fd2 |-> GetFiscalYearDates(name2)]
  /\ UNCHANGED svars

\* ------------------------------------------------------------ specifications
TenantA == {"tA"}
User1 == {"u1"}
Time1 == {"t1"}
Name1 == { <<"2","0","8","2","/","8","3">> }

\* create and setCurrent calls only, two tenants
NextSetCurrent == \E w \in Workers : CreateFromNepaliDate(w, Tenants, Names) \/ SetAsCurrent(w, Tenants)

SpecSetCurrent == Init /\ [][NextSetCurrent]_vars

\* the period lifecycle of one tenant: create, setCurrent, close, reopen, delete
NextLifecycle == \E w \in Workers :
          \/ CreateFromNepaliDate(w, TenantA, Names)
          \/ SetAsCurrent(w, TenantA)
          \/ CloseReopen(w, User1, Time1)
          \/ Delete(w)

SpecLifecycle == Init /\ [][NextLifecycle]_vars

\* create and numbering calls only
NextNumbering == \E w \in Workers : CreateFromNepaliDate(w, TenantA, Names) \/ Generate(w, DocTypes)

SpecNumbering == Init /\ [][NextNumbering]_vars

\* numbering against close and reopen; no period is ever current here, so no
\* Update reaches the index check
NextClosed == \E w \in Workers :
          \/ CreateFromNepaliDate(w, TenantA, Name1)
          \/ CloseLoad(w, User1, Time1)
          \/ ReopenLoad(w)
          \/ UpdateRow(w)
          \/ Generate(w, DocTypes)

SpecClosed == Init /\ [][NextClosed]_vars

\* one call at a time: a call starts only when no other call is in progress, so no
\* statement ever waits or collides
OthersIdle(w) == \A v \in Workers \ {w} : pc[v] = "idle"

\* sequential lifecycle: create, setCurrent, close, reopen, delete
NextSeqLifecycle == \E w \in Workers :
          \/ OthersIdle(w) /\ CreateFromNepaliDate(w, TenantA, Names)
          \/ OthersIdle(w) /\ ScBegin(w, TenantA)
          \/ OthersIdle(w) /\ ScUnsetRow(w)
          \/ OthersIdle(w) /\ ScSet(w)
          \/ OthersIdle(w) /\ ScIndex(w)
          \/ OthersIdle(w) /\ ScCommit(w)
          \/ OthersIdle(w) /\ CloseLoad(w, Users, Times)
          \/ OthersIdle(w) /\ ReopenLoad(w)
          \/ OthersIdle(w) /\ UpdateRow(w)
          \/ OthersIdle(w) /\ DeleteLoad(w)
          \/ OthersIdle(w) /\ DeleteExec(w)

SpecSeqLifecycle == Init /\ [][NextSeqLifecycle]_vars

\* sequential numbering: create, close, reopen and numbering calls
NextSeqNumbering == \E w \in Workers :
          \/ OthersIdle(w) /\ CreateFromNepaliDate(w, TenantA, Names)
          \/ OthersIdle(w) /\ CloseLoad(w, User1, Time1)
          \/ OthersIdle(w) /\ ReopenLoad(w)
          \/ OthersIdle(w) /\ UpdateRow(w)
          \/ OthersIdle(w) /\ GenLoad(w, DocTypes)
          \/ OthersIdle(w) /\ GenIncrement(w)

SpecSeqNumbering == Init /\ [][NextSeqNumbering]_vars

\* a name shorter than seven characters next to the usual ones
ShortName == <<"8","2","/","8","3">>
AnyNames == Names \cup {ShortName}

\* create calls of both kinds
NextCreate == \E w \in Workers :
          \/ CreateFromNepaliDate(w, Tenants, Names)
          \/ Create(w, TenantA, AnyNames, ExplicitTimes)

SpecCreate == Init /\ [][NextCreate]_vars

\* setCurrent calls of one tenant against a store whose commit can fail
NextCommit == \E w \in Workers :
          \/ CreateFromNepaliDate(w, TenantA, Names)
          \/ SetAsCurrent(w, TenantA)
          \/ ScCommitFails(w)

SpecCommit == Init /\ [][NextCommit]_vars

\* numbering calls against a store whose statements can fail
NextFaults == \E w \in Workers :
          \/ CreateFromNepaliDate(w, TenantA, Name1)
          \/ GenLoad(w, DocTypes)
          \/ GenLoadError(w, DocTypes)
          \/ GenIncrement(w)
          \/ GenIncrementError(w)

SpecFaults == Init /\ [][NextFaults]_vars

\* every operation that writes a stored period, interleaved, on the one period of one
\* tenant
InvoiceOnly == {"invoice"}

NextMixed == \E w \in Workers :
          \/ CreateFromNepaliDate(w, TenantA, Name1)
          \/ ScBegin(w, TenantA)
          \/ ScUnsetRow(w)
          \/ ScSet(w)
          \/ ScIndex(w)
          \/ ScCommit(w)
          \/ CloseLoad(w, User1, Time1)
          \/ ReopenLoad(w)
          \/ UpdateRow(w)
          \/ UpdateIndex(w)
          \/ Generate(w, InvoiceOnly)

SpecMixed == Init /\ [][NextMixed]_vars

\* one call at a time, every operation but delete, two periods of one tenant
NextSeqMixed == \E w \in Workers :
          \/ OthersIdle(w) /\ CreateFromNepaliDate(w, TenantA, Names)
          \/ OthersIdle(w) /\ ScBegin(w, TenantA)
          \/ OthersIdle(w) /\ ScUnsetRow(w)
          \/ OthersIdle(w) /\ ScSet(w)
          \/ OthersIdle(w) /\ ScIndex(w)
          \/ OthersIdle(w) /\ ScCommit(w)
          \/ OthersIdle(w) /\ CloseLoad(w, User1, Time1)
          \/ OthersIdle(w) /\ ReopenLoad(w)
          \/ OthersIdle(w) /\ UpdateRow(w)
          \/ OthersIdle(w) /\ GenLoad(w, InvoiceOnly)
          \/ OthersIdle(w) /\ GenIncrement(w)

SpecSeqMixed == Init /\ [][NextSeqMixed]_vars

\* close and reopen calls by two closers on the periods of one tenant
NextClosers == \E w \in Workers :
          \/ CreateFromNepaliDate(w, TenantA, Names)
          \/ CloseLoad(w, Users, Time1)
          \/ ReopenLoad(w)
          \/ UpdateRow(w)

SpecClosers == Init /\ [][NextClosers]_vars

\* one call at a time: create, numbering, close, reopen and delete on the periods of
\* one tenant
NextSeqReuse == \E w \in Workers :
          \/ OthersIdle(w) /\ CreateFromNepaliDate(w, TenantA, Names)
          \/ OthersIdle(w) /\ GenLoad(w, DocTypes)
          \/ OthersIdle(w) /\ GenIncrement(w)
          \/ OthersIdle(w) /\ CloseLoad(w, User1, Time1)
          \/ OthersIdle(w) /\ ReopenLoad(w)
          \/ OthersIdle(w) /\ UpdateRow(w)
          \/ OthersIdle(w) /\ DeleteLoad(w)
          \/ OthersIdle(w) /\ DeleteExec(w)

SpecSeqReuse == Init /\ [][NextSeqReuse]_vars

\* numbering, close, reopen and delete calls interleaved on the periods of one name, a
\* period being deleted and created again while calls on it are in flight
NextGone == \E w \in Workers :
          \/ CreateFromNepaliDate(w, TenantA, Name1)
          \/ GenLoad(w, InvoiceOnly)
          \/ GenIncrement(w)
          \/ CloseLoad(w, User1, Time1)
          \/ ReopenLoad(w)
          \/ UpdateRow(w)
          \/ DeleteLoad(w)
          \/ DeleteExec(w)

SpecGone == Init /\ [][NextGone]_vars

\* journal entries created and posted while the fiscal year is closed and reopened
NextJournal == \E w \in Workers :
          \/ CreateFromNepaliDate(w, TenantA, Name1)
          \/ CloseLoad(w, User1, Time1)
          \/ ReopenLoad(w)
          \/ UpdateRow(w)
          \/ JeLoad(w, TenantA, JournalDates)
          \/ JePersist(w)
          \/ PostLoad(w)
          \/ PostFiscal(w)
          \/ PostUpdate(w)

SpecJournal == Init /\ [][NextJournal]_vars

\* the calendar conversions on their own
NextCalendar ==
  \/ ToLocal
  \/ ToLocalBack
  \/ ToCivil
  \/ ToCivilBack
  \/ ToLocalPair
  \/ ToCivilPair
  \/ ToFiscalYears

SpecCalendar == Init /\ [][NextCalendar]_vars

\* ------------------------------------------------------------ properties
Idle == \A w \in Workers : pc[w] = "idle"

\* this step is a step of worker w's running SetAsCurrent call
ScStep(w) ==
  /\ pc[w] \in {"sc_unset", "sc_index", "sc_commit"}
  /\ pc'[w] # pc[w] \/ cand'[w] # cand[w] \/ txw'[w] # txw[w]

\* worker w's SetAsCurrent call returns in this step
ScReturns(w) == pc[w] \in {"sc_unset", "sc_index", "sc_commit"} /\ pc'[w] = "idle"

\* the target of w's running SetAsCurrent is a row of the tenant it names
ValidTarget(w) == Exists(call[w].id) /\ rows[call[w].id].tenant = call[w].tenant

\* CurrentOf in the state the step leads to
CurrentOfNext(t) == {p \in Ids : rows'[p].exists /\ rows'[p].tenant = t /\ rows'[p].isCurrent}

FlagsUnchanged ==
  \A p \in Ids : /\ rows'[p].exists = rows[p].exists
                 /\ rows[p].exists => rows'[p].isCurrent = rows[p].isCurrent

\* C1: with numbering calls only, the numbers returned so far for a period and a
\* document type are exactly 1 .. counter, each returned once: callers that raced from
\* counter k to k+N received {k+1, ..., k+N}, no duplicate, no gap
C1_ExactRange ==
  \A p \in Ids, d \in DocTypes, n \in 1..MaxCalls :
     rows[p].exists =>
        issued[p][d][n] = (IF n <= Counter(rows[p], d) THEN 1 ELSE 0)

\* two callers loaded the period at the same counter; one has received its number
C1_Witness ==
  \E v \in Workers :
     /\ pc[v] = "increment" /\ ret.val.num > 0 /\ ret.w # v
     /\ ret.call.id = call[v].id /\ ret.call.doc = call[v].doc
     /\ ret.val.num = Counter(fy[v], call[v].doc) + 1

\* C2: under numbering interleaved with close and reopen, no stored counter ever
\* decreases and no number is returned twice for a (period, document type)
C2_Monotonic ==
  /\ [][\A p \in Ids, d \in DocTypes :
          rows[p].exists /\ rows'[p].exists
             => Counter(rows'[p], d) >= Counter(rows[p], d)]_vars
  /\ [](\A p \in Ids, d \in DocTypes, n \in 1..MaxCalls : issued[p][d][n] <= 1)

\* C3: every committed state has at most one current period per tenant
C3_OneCurrent == \A t \in Tenants : Cardinality(CurrentOf(t)) <= 1

\* a second writer was turned away while a period of the tenant is current
C3_Witness ==
  /\ ret.call.op = "setCurrent" /\ ~ret.val.ok
  /\ CurrentOf(ret.call.tenant) # {}
  /\ \E p \in Ids : rows[p].exists /\ rows[p].isClosed

\* C4: no increment commits on a period whose stored isClosed is true
C4_NoIncrementWhileClosed ==
  [][\A w \in Workers :
       pc[w] = "increment" /\ pc'[w] = "idle" /\ rows' # rows
          => ~rows[call[w].id].isClosed]_vars

\* C5: once a tenant has a current period, every SetAsCurrent step for an existing
\* period of the tenant leaves exactly one current: no committed state shows both
\* the old and the new period current, or neither
C5_SwitchAtomic ==
  [][\A w \in Workers :
       LET t == call[w].tenant IN
       (ScStep(w) /\ ValidTarget(w) /\ Cardinality(CurrentOf(t)) = 1)
       => /\ Cardinality(CurrentOfNext(t)) = 1
          /\ (pc[w] = "sc_commit" /\ pc'[w] = "idle") => CurrentOfNext(t) = {call[w].id}]_vars

\* a worker whose snapshot saw period a current now finds b current instead
C5_Witness ==
  \E v \in Workers, a \in Ids :
     /\ pc[v] = "sc_unset" /\ cand[v] = {a}
     /\ ret.call.op = "setCurrent" /\ ret.val.ok /\ ret.call.tenant = call[v].tenant
     /\ ret.call.id # a
     /\ CurrentOf(call[v].tenant) = {ret.call.id}

\* C6: when every call has returned and the last one was a successful setCurrent for
\* a tenant that owns a period, the tenant has exactly one current period
C6_OneAtQuiescence ==
  (/\ Idle /\ ret.call.op = "setCurrent" /\ ret.val.ok
   /\ \E p \in Ids : rows[p].exists /\ rows[p].tenant = ret.call.tenant)
     => Cardinality(CurrentOf(ret.call.tenant)) = 1

\* C7 as claimed: a setCurrent call for an existing period of the tenant always commits
C7_EveryCallCommits ==
  [][\A w \in Workers : ScReturns(w) /\ ValidTarget(w) => ret'.val.ok]_vars

\* C7 amended: such a call either commits and its target is then the tenant's only
\* current period, or fails with the store's error and changes no row; so the period
\* current after all calls is the target of the last committed one
C7_LastCommittedWins ==
  [][\A w \in Workers :
       /\ ScReturns(w) /\ ValidTarget(w)
            => \/ ret'.val.ok /\ CurrentOfNext(call[w].tenant) = {call[w].id}
               \/ ~ret'.val.ok /\ rows' = rows
       /\ ScStep(w) /\ ~ScReturns(w) => rows' = rows]_vars

\* a call for an existing period failed while another period of the tenant is current
C7_Witness ==
  /\ ret.call.op = "setCurrent" /\ ~ret.val.ok
  /\ Exists(ret.call.id) /\ rows[ret.call.id].tenant = ret.call.tenant
  /\ \E q \in Ids \ {ret.call.id} : CurrentOf(ret.call.tenant) = {q}

\* C8: a setCurrent that does not leave its target current revokes nothing
C8_NoPartialApplication ==
  [][\A w \in Workers :
       LET f == call[w].id
           t == call[w].tenant
       IN (ScReturns(w) /\ f \notin CurrentOfNext(t))
             => CurrentOfNext(t) = CurrentOf(t)]_vars

\* C9: setCurrent on a period stored as closed is rejected and changes no isCurrent flag
C9_ClosedNeverCurrent ==
  [][\A w \in Workers :
       (ScReturns(w) /\ ValidTarget(w) /\ rows[call[w].id].isClosed)
          => ~ret'.val.ok /\ FlagsUnchanged]_vars

\* C10: with every other worker idle, a numbering call on a period stored as closed
\* returns the closed-period error and no number, and changes no row
C10_ClosedRejected ==
  [][\A w \in Workers, p \in Ids :
       (Idle /\ rows[p].exists /\ rows[p].isClosed)
          => /\ ~(pc'[w] = "increment" /\ call'[w].id = p)
             /\ (ret'.w = w /\ ret'.call.op \in DocTypes /\ ret'.call.id = p)
                  => /\ ret'.val = ErrRet(ClosedError(ret'.call.doc))
                     /\ rows' = rows]_vars

\* a numbering call was rejected for a closed period that had issued a number
C10_Witness ==
  /\ Idle /\ ret.call.op \in DocTypes
  /\ ret.val.err = ClosedError(ret.call.doc)
  /\ rows[ret.call.id].isClosed
  /\ Counter(rows[ret.call.id], ret.call.doc) > 0

\* C11: a close or reopen leaves all three counters of its period as they were stored
\* before it, so numbering continues from the last value after a reopen
C11_CloseReopenPreserveCounters ==
  [][\A w \in Workers, d \in DocTypes :
       (pc[w] = "update" /\ pc'[w] = "idle" /\ Exists(call[w].id))
          => Counter(rows'[call[w].id], d) = Counter(rows[call[w].id], d)]_vars

\* the tag of a document type and the four decimal digits of k < 10000, written out
TypeTag(d) ==
  CASE d = "invoice" -> <<"I", "N", "V">>
    [] d = "purchase" -> <<"P", "U", "R">>
    [] d = "voucher" -> <<"J", "V">>

FourDigits(k) ==
  << DigitChars[((k \div 1000) % 10) + 1], DigitChars[((k \div 100) % 10) + 1],
     DigitChars[((k \div 10) % 10) + 1], DigitChars[(k % 10) + 1] >>

\* how many numbering calls have succeeded so far for (p, d)
RECURSIVE TimesIssued(_, _, _)
TimesIssued(p, d, n) == IF n = 0 THEN 0 ELSE issued[p][d][n] + TimesIssued(p, d, n - 1)

\* C12: in a sequential run the k-th successful numbering call for a document type of
\* a period returns TAG-yycc- followed by k as four digits, k counted from 1 per
\* period and type
C12_KthNumber ==
  (ret.call.op \in DocTypes /\ ret.val.ok) =>
     LET p == ret.call.id
         d == ret.call.doc
         nm == rows[p].name
     IN FormatNumber(ret.val.prefix, ret.val.num)
          = TypeTag(d) \o <<"-", nm[3], nm[4], nm[6], nm[7], "-">>
              \o FourDigits(TimesIssued(p, d, MaxCalls))

\* the third invoice number of 2082/83 is INV-8283-0003
C12_Witness ==
  /\ ret.call.op = "invoice" /\ ret.val.ok
  /\ FormatNumber(ret.val.prefix, ret.val.num)
       = <<"I", "N", "V", "-", "8", "2", "8", "3", "-", "0", "0", "0", "3">>

\* C13: every committed removal happens on a period stored as open and not current
C13_DeleteOnlyOpenNotCurrent ==
  [][\A w \in Workers :
       LET p == call[w].id IN
       (pc[w] = "delete" /\ pc'[w] = "idle" /\ Exists(p) /\ ~rows'[p].exists)
          => ~rows[p].isCurrent /\ ~rows[p].isClosed]_vars

\* a delete call on the existing period p returns in this step
DeleteReturns(p) == ret'.w # 0 /\ ret'.call.op = "delete" /\ ret'.call.id = p /\ Exists(p)

\* the step removes period p and changes no other row
RemovesOnly(p) == rows' = [rows EXCEPT ![p] = NoRow]

\* C14 as claimed: run alone, delete on a current period fails with the current-period
\* error, delete on a closed period fails with the closed-period error, both changing
\* nothing; delete on an open, not current period removes exactly that period
C14_DeleteByFlag ==
  [][\A p \in Ids :
       DeleteReturns(p) =>
          /\ rows[p].isCurrent
               => ret'.val = ErrRet("cannot delete current fiscal year") /\ rows' = rows
          /\ rows[p].isClosed
               => ret'.val = ErrRet("cannot delete closed fiscal year") /\ rows' = rows
          /\ (~rows[p].isCurrent /\ ~rows[p].isClosed)
               => ret'.val = OkRet /\ RemovesOnly(p)]_vars

\* C14 amended: the current-period check comes first, so a period that is current
\* fails with the current-period error whether or not it is closed, and only a closed
\* period that is not current fails with the closed-period error
C14_DeleteCurrentFirst ==
  [][\A p \in Ids :
       DeleteReturns(p) =>
          /\ rows[p].isCurrent
               => ret'.val = ErrRet("cannot delete current fiscal year") /\ rows' = rows
          /\ (rows[p].isClosed /\ ~rows[p].isCurrent)
               => ret'.val = ErrRet("cannot delete closed fiscal year") /\ rows' = rows
          /\ (~rows[p].isCurrent /\ ~rows[p].isClosed)
               => ret'.val = OkRet /\ RemovesOnly(p)]_vars

\* a delete was turned away as current on a period that is closed as well, after
\* another period had been removed
C14_Witness ==
  /\ Idle /\ ret.call.op = "delete"
  /\ ret.val.err = "cannot delete current fiscal year"
  /\ rows[ret.call.id].isClosed /\ rows[ret.call.id].isCurrent
  /\ \E q \in 1..nextId : ~rows[q].exists

\* a call of operation op on the existing period p returns in this step
OpReturns(op, p) == ret'.w # 0 /\ ret'.call.op = op /\ ret'.call.id = p /\ Exists(p)

\* C15: run alone, close on a closed period fails with the already-closed error and
\* changes no row, so closedAt and closedBy stay those of the earlier close; close on
\* an open period sets isClosed, a closing time and the caller's closedBy, nothing else
C15_CloseRules ==
  [][\A p \in Ids :
       OpReturns("close", p) =>
          /\ rows[p].isClosed
               => ret'.val = ErrRet("fiscal year is already closed") /\ rows' = rows
          /\ ~rows[p].isClosed
               => /\ ret'.val = OkRet
                  /\ rows'[p].closedAt \in Times
                  /\ rows' = [rows EXCEPT ![p] = [@ EXCEPT !.isClosed = TRUE,
                                                          !.closedAt = rows'[p].closedAt,
                                                          !.closedBy = ret'.call.user]]]_vars

\* a second close by another user was turned away; the period keeps the first closer
C15_Witness ==
  /\ Idle /\ ret.call.op = "close" /\ ret.val.err = "fiscal year is already closed"
  /\ rows[ret.call.id].isClosed
  /\ rows[ret.call.id].closedBy # ret.call.user
  /\ rows[ret.call.id].closedAt \in Times

\* C16: run alone, reopen on a period that is not closed fails with the not-closed
\* error and changes no row; reopen on a closed period clears isClosed, closedAt and
\* closedBy, nothing else
C16_ReopenRules ==
  [][\A p \in Ids :
       OpReturns("reopen", p) =>
          /\ ~rows[p].isClosed
               => ret'.val = ErrRet("fiscal year is not closed") /\ rows' = rows
          /\ rows[p].isClosed
               => /\ ret'.val = OkRet
                  /\ rows' = [rows EXCEPT ![p] = [@ EXCEPT !.isClosed = FALSE,
                                                          !.closedAt = "nil",
                                                          !.closedBy = "nil"]]]_vars

\* a closed current period was reopened: open again, no markers, still current
C16_Witness ==
  /\ Idle /\ ret.call.op = "reopen" /\ ret.val.ok
  /\ ~rows[ret.call.id].isClosed
  /\ rows[ret.call.id].closedAt = "nil" /\ rows[ret.call.id].closedBy = "nil"
  /\ rows[ret.call.id].isCurrent

\* a create call returns in this step
CreateReturns == ret'.w # 0 /\ ret'.call.op = "create"

LocalLess(x, y) ==
  \/ x.year < y.year
  \/ x.year = y.year /\ x.month < y.month
  \/ x.year = y.year /\ x.month = y.month /\ x.day < y.day

\* C18: a civil date whose local date lies in the seeded table comes back from
\* BSToAD(ADToBS(d)) unchanged, and a valid local date of the table comes back from
\* ADToBS(BSToAD(x)) unchanged
C18_RoundTrip ==
  /\ (cal.op = "ADToBS.BSToAD" /\ cal.bs.year \in TableYears) => cal.ad2 = cal.ad
  /\ (cal.op = "BSToAD.ADToBS" /\ ValidLocal(cal.bs)) => cal.bs2 = cal.bs

\* the last day of the table, 2090-12-31, went to a civil date and came back
C18_Witness ==
  /\ cal.op = "BSToAD.ADToBS"
  /\ cal.bs = NepaliDate(2090, 12, 31)
  /\ cal.ad = (TableDays - 1) * HoursPerDay
  /\ cal.bs2 = cal.bs

\* C19: within the table, a later civil date has a later local date and a later
\* valid local date has a later civil date
C19_OrderPreserved ==
  /\ (cal.op = "ADToBS2" /\ cal.bs.year \in TableYears /\ cal.bs2.year \in TableYears)
        => LocalLess(cal.bs, cal.bs2)
  /\ cal.op = "BSToAD2" => cal.ad < cal.ad2

\* two civil dates on either side of a local new year, and two local dates on either
\* side of a month end
C19_Witness ==
  \/ /\ cal.op = "ADToBS2" /\ cal.bs.year = 2082 /\ cal.bs2.year = 2083
  \/ /\ cal.op = "BSToAD2" /\ cal.bs.month = 3 /\ cal.bs2.month = 4

\* C20: a conversion that needed the length of a month the table does not have ends
\* in an error
C20_NoDefaultLength ==
  (cal.op \in {"ADToBS", "BSToAD"} /\ cal.fb) => cal.err

\* C21: a create without explicit dates for a name Y/(Y+1) stores local start Y-04-01
\* and local end (Y+1)-03-D, D being the table's length of month 3 of year Y+1, and
\* the civil start and end dates are the BSToAD of these two local dates
C21_DatesFromName ==
  [][(CreateReturns /\ ~ret'.call.explicit /\ ret'.val.ok) =>
       LET r == rows'[ret'.call.id]
           Y == ScanYear(ret'.call.name)
           startLocal == NepaliDate(Y, 4, 1)
           endLocal == NepaliDate(Y + 1, 3, nepaliMonthDays[Y + 1][3])
       IN /\ r.startDateBS = String(startLocal)
          /\ r.endDateBS = String(endLocal)
          /\ r.startDate = BSToAD(startLocal)
          /\ r.endDate = BSToAD(endLocal)]_vars

\* C22: for the fiscal year named 2082/83 created without explicit dates, the civil
\* start date is 2025-07-17 and the civil end date is 2026-07-16
C22_ExampleDates ==
  [][(CreateReturns /\ ~ret'.call.explicit /\ ret'.val.ok
        /\ ret'.call.name = <<"2","0","8","2","/","8","3">>) =>
       LET r == rows'[ret'.call.id]
       IN /\ CivilDate(r.startDate) = [year |-> 2025, month |-> 7, day |-> 17]
          /\ CivilDate(r.endDate) = [year |-> 2026, month |-> 7, day |-> 16]]_vars

\* C23: a setCurrent call reports success only if its transaction committed: when it
\* returns without an error, every row version it wrote is the committed one
C23_SuccessMeansCommitted ==
  [][\A w \in Workers : (ScReturns(w) /\ ret'.val.ok) => rows' = Commit(w)]_vars

\* worker w's numbering call, past its load, returns in this step
NumberingReturns(w) == pc[w] = "increment" /\ pc'[w] = "idle"

\* C24: no retry.  A counter changes only by one increment, made in the step in which
\* the numbering call for it returns, so a call increments at most once; a call that
\* fails at the load changes nothing, and a call whose increment fails returns an
\* error and hands out no number
C24_NoRetry ==
  /\ [][\A p \in Ids, d \in DocTypes :
          (rows[p].exists /\ rows'[p].exists /\ Counter(rows'[p], d) # Counter(rows[p], d))
             => /\ Counter(rows'[p], d) = Counter(rows[p], d) + 1
                /\ \E w \in Workers :
                     NumberingReturns(w) /\ call[w].id = p /\ call[w].doc = d]_vars
  /\ [][\A w \in Workers :
          (pc[w] = "idle" /\ ret'.w = w /\ ret'.call.op \in DocTypes)
             => ~ret'.val.ok /\ rows' = rows /\ issued' = issued]_vars
  /\ [][\A w \in Workers :
          NumberingReturns(w) =>
             IF ret'.val.ok
             THEN ret'.val.num = Counter(rows[call[w].id], call[w].doc) + 1
                  /\ rows' = [rows EXCEPT ![call[w].id] = Increment(@, call[w].doc)]
             ELSE ret'.val.err = IncrementError(call[w].doc) /\ issued' = issued]_vars

\* an increment was committed and its answer lost: the call returned the error, and
\* the number it consumed was handed to nobody
C24_Witness ==
  /\ ret.call.op \in DocTypes /\ ~ret.val.ok
  /\ ret.val.err = IncrementError(ret.call.doc)
  /\ Exists(ret.call.id)
  /\ Counter(rows[ret.call.id], ret.call.doc) >= 1
  /\ issued[ret.call.id][ret.call.doc][Counter(rows[ret.call.id], ret.call.doc)] = 0

\* C25: the three prefixes of a stored period are generatePrefix of the type tag and
\* the name, and no step of a setCurrent, close, reopen or numbering call, in any
\* interleaving, changes the name or a prefix of a stored period
C25_PrefixesFixed ==
  /\ [](\A p \in Ids :
          rows[p].exists =>
             /\ rows[p].invoicePrefix = generatePrefix(<<"I","N","V">>, rows[p].name)
             /\ rows[p].purchasePrefix = generatePrefix(<<"P","U","R">>, rows[p].name)
             /\ rows[p].voucherPrefix = generatePrefix(<<"J","V">>, rows[p].name))
  /\ [][\A p \in Ids :
          (rows[p].exists /\ rows'[p].exists) =>
             /\ rows'[p].name = rows[p].name
             /\ \A d \in DocTypes : Prefix(rows'[p], d) = Prefix(rows[p], d)]_vars

\* a period that was made current, numbered from and closed has just been reopened,
\* and carries the prefix it was created with
C25_Witness ==
  /\ ret.call.op = "reopen" /\ ret.val.ok /\ Exists(ret.call.id)
  /\ rows[ret.call.id].isCurrent /\ rows[ret.call.id].lastInvoiceNum >= 1
  /\ rows[ret.call.id].invoicePrefix = <<"I","N","V","-","8","2","8","3","-">>

\* the separator of a period name
Separator == "/"

\* C26: for every stored period and document type the prefix is the type tag, "-", a
\* year code and "-", and it never contains the separator character of the name; for
\* the name 2082/83 the first numbers read INV-8283-0001, PUR-8283-0001, JV-8283-0001
C26_PrefixFormat ==
  \A p \in Ids, d \in DocTypes :
     rows[p].exists =>
        LET pre == Prefix(rows[p], d)
            tag == TypeTag(d)
        IN /\ Len(pre) >= Len(tag) + 2
           /\ SubSeq(pre, 1, Len(tag) + 1) = tag \o <<"-">>
           /\ pre[Len(pre)] = "-"
           /\ \A i \in 1..Len(pre) : pre[i] # Separator
           /\ rows[p].name = <<"2","0","8","2","/","8","3">>
                 => FormatNumber(pre, 1) = tag \o <<"-","8","2","8","3","-","0","0","0","1">>

\* C27: the step that ends a numbering call leaves every counter but its own as it
\* was, the other two of the same period and all of every other period, and hands out
\* the next integer of its own sequence; the load before it changes nothing
C27_CountersIndependent ==
  /\ [][\A w \in Workers :
          NumberingReturns(w) =>
             /\ \A p \in Ids, e \in DocTypes :
                  (rows[p].exists /\ <<p, e>> # <<call[w].id, call[w].doc>>)
                     => rows'[p].exists /\ Counter(rows'[p], e) = Counter(rows[p], e)
             /\ ret'.val.ok =>
                  /\ ret'.val.num = Counter(rows[call[w].id], call[w].doc) + 1
                  /\ Counter(rows'[call[w].id], call[w].doc) = ret'.val.num]_vars
  /\ [][\A w \in Workers : (pc[w] = "idle" /\ pc'[w] = "increment") => rows' = rows]_vars

\* an invoice number of a period was handed out while a purchase numbering call on
\* the same period is between its load and its increment, purchase numbers having
\* been handed out before
C27_Witness ==
  /\ ret.call.op = "invoice" /\ ret.val.ok /\ ret.val.num >= 1
  /\ \E v \in Workers :
       /\ pc[v] = "increment" /\ call[v].id = ret.call.id /\ call[v].doc = "purchase"
       /\ rows[ret.call.id].lastPurchaseNum >= 1

\* C28: every stored period has its end date after its start date, and a create with
\* explicit dates whose end date is not after its start date fails and stores nothing
C28_EndAfterStart ==
  /\ [](\A p \in Ids : rows[p].exists => rows[p].endDate > rows[p].startDate)
  /\ [][(CreateReturns /\ ret'.call.explicit /\ ret'.call.endDate <= ret'.call.startDate)
          => ~ret'.val.ok /\ rows' = rows /\ nextId' = nextId]_vars

\* a create with an end date before its start date, for a name the tenant does not
\* hold, has failed
C28_Witness ==
  /\ ret.call.op = "create" /\ ret.call.explicit /\ ~ret.val.ok
  /\ ret.call.endDate < ret.call.startDate
  /\ ~DuplicateName(ret.call.tenant, ret.call.name)

\* C29: a period just created is open and not current, its three counters are 0 and
\* it has no closedAt and no closedBy; the create leaves the isCurrent flag, the closed
\* flag and the counters of every period stored before as they were
C29_CreatedOpenNotCurrent ==
  [][(CreateReturns /\ ret'.val.ok) =>
       LET r == rows'[ret'.call.id]
       IN /\ r.exists /\ ~r.isCurrent /\ ~r.isClosed
          /\ r.closedAt = "nil" /\ r.closedBy = "nil"
          /\ \A d \in DocTypes : Counter(r, d) = 0
          /\ \A p \in Ids \ {ret'.call.id} :
               /\ rows'[p].exists = rows[p].exists
               /\ rows[p].exists =>
                    /\ rows'[p].isCurrent = rows[p].isCurrent
                    /\ rows'[p].isClosed = rows[p].isClosed
                    /\ \A d \in DocTypes : Counter(rows'[p], d) = Counter(rows[p], d)]_vars

\* a second period was just created while the first is current, closed and has
\* handed out an invoice number
C29_Witness ==
  /\ ret.call.op = "create" /\ ret.val.ok /\ Exists(ret.call.id)
  /\ \E p \in Ids \ {ret.call.id} :
       /\ rows[p].exists /\ rows[p].isCurrent /\ rows[p].isClosed
       /\ rows[p].lastInvoiceNum >= 1

\* worker w's close or reopen call writes its target and returns in this step
UpdateReturns(w) ==
  /\ pc[w] \in {"update", "update_index"} /\ pc'[w] = "idle"
  /\ ret'.val.ok /\ Exists(call[w].id)

\* C30: the write of a close or reopen call changes only the closed flag, closedAt and
\* closedBy of its target: the stored isCurrent flag of the target stays as it is in
\* the store, also when a setCurrent call committed after the call loaded the period
C30_CloseKeepsCurrentFlag ==
  [][\A w \in Workers :
       UpdateReturns(w) =>
          /\ rows'[call[w].id].exists
          /\ rows'[call[w].id].isCurrent = rows[call[w].id].isCurrent
          /\ \A p \in Ids \ {call[w].id} : rows'[p] = rows[p]]_vars

\* C31: of two close calls with different closers running concurrently on the same
\* open period exactly one succeeds: a close call that returns without an error has
\* closed a period that no other closer had closed in the store when it wrote, and the
\* stored closedBy is then its closer
C31_OneCloserWins ==
  [][\A w \in Workers :
       (UpdateReturns(w) /\ call[w].op = "close"
          /\ rows[call[w].id].closedBy # call[w].user) =>
          /\ ~rows[call[w].id].isClosed
          /\ rows'[call[w].id].isClosed
          /\ rows'[call[w].id].closedBy = call[w].user]_vars

\* C32: within a tenant no number string of a document type is returned twice: the
\* string a successful numbering call returns was returned by no earlier call
C32_NoStringTwice ==
  [][\A w \in Workers :
       (NumberingReturns(w) /\ ret'.val.ok) =>
          <<call[w].tenant, call[w].doc, FormatNumber(ret'.val.prefix, ret'.val.num)>>
             \notin handed]_vars

\* C33: SetAsCurrent(tenantID, fiscalYearID) changes the isCurrent flag of no period of
\* another tenant, whichever period fiscalYearID names: a stored isCurrent flag changes
\* only in the step in which a SetAsCurrent call of the owning tenant returns
C33_TenantIsolation ==
  [][\A p \in Ids :
       (rows[p].exists /\ rows'[p].exists /\ rows'[p].isCurrent # rows[p].isCurrent) =>
          \E w \in Workers : ScReturns(w) /\ call[w].tenant = rows[p].tenant]_vars

\* a SetAsCurrent call that named a period of another tenant has returned without an
\* error; that period is still not current, while the caller's own current period is
C33_Witness ==
  /\ ret.call.op = "setCurrent" /\ ret.val.ok
  /\ Exists(ret.call.id)
  /\ rows[ret.call.id].tenant # ret.call.tenant
  /\ ~rows[ret.call.id].isCurrent
  /\ CurrentOf(ret.call.tenant) # {}

\* C34: the fiscal years derived from two consecutive names, local years in the table,
\* do not overlap: the civil end date of the first is strictly before the civil start
\* date of the second
C34_NoOverlap ==
  cal.op = "GetFiscalYearDates2" => DateOf(cal.fd.endAD) < DateOf(cal.fd2.startAD)

\* a numbering, close, reopen or delete call of worker w that named period p returns
\* from its load in this step
LoadReturns(w, p) ==
  /\ pc[w] = "idle" /\ pc'[w] = "idle" /\ ret'.w = w
  /\ ret'.call.op \in DocTypes \cup {"close", "reopen", "delete"}
  /\ ret'.call.id = p

\* the step returns an error, changes no stored period and hands out no number
FailsUnchanged == ~ret'.val.ok /\ rows' = rows /\ issued' = issued /\ handed' = handed

C36_ValidLocalDate ==
  (/\ cal.op = "ADToBS"
   /\ \/ cal.bs.year \in TableYears
      \/ (cal.ad >= referenceAD /\ cal.ad < referenceAD + TableDays * HoursPerDay))
     => ValidLocal(cal.bs)

\* the civil date 62 days after the reference date went to 2080-02-32, the last day of
\* a month of 32 days
C36_Witness ==
  /\ cal.op = "ADToBS"
  /\ cal.ad = referenceAD + (nepaliMonthDays[2080][1] + nepaliMonthDays[2080][2] - 1) * HoursPerDay
  /\ cal.bs = NepaliDate(2080, 2, 32)
  /\ nepaliMonthDays[2080][2] = 32

\* a CreateJournalEntry call returns in this step
JeReturns == ret'.w # 0 /\ ret'.call.op = "createJournal"

\* C37: closing a fiscal year blocks journal entries in it, and reopening admits them
\* again.  CreateJournalEntry for a fiscal year stored as closed fails and stores
\* nothing; PostJournalEntry of a draft whose fiscal year is stored as closed fails and
\* leaves the draft as it is; for an open fiscal year CreateJournalEntry with a date of
\* the fiscal year succeeds and PostJournalEntry of a draft makes it POSTED
C37_ClosedBlocksJournal ==
  [][/\ JeReturns =>
          LET p == ret'.call.id IN
          /\ (Exists(p) /\ rows[p].isClosed /\ ret'.w \in Workers /\ pc[ret'.w] = "idle")
                => ~ret'.val.ok /\ journal' = journal
          /\ ~ret'.val.ok
                => \/ ~Exists(p) \/ rows[p].isClosed
                   \/ ret'.call.date < rows[p].startDate \/ ret'.call.date > rows[p].endDate
     /\ \A w \in Workers :
          LET p == call[w].id
              e == call[w].entry
          IN /\ (pc[w] = "post_fiscal" /\ pc'[w] # pc[w] /\ Exists(p) /\ rows[p].isClosed)
                   => /\ pc'[w] = "idle" /\ ~ret'.val.ok
                      /\ journal' = journal /\ journal[e].status = "DRAFT"
             /\ (pc[w] = "post_update" /\ pc'[w] = "idle" /\ Exists(p) /\ ~rows[p].isClosed)
                   => ret'.val.ok /\ journal'[e].status = "POSTED"]_vars

====
